---- MODULE Spec2Model ----
(***************************************************************************)
(* A model of update.py, the generator of the iana-etc release: the two    *)
(* transformers (write_services_file, write_protocols_file), atomic_write, *)
(* the archive construction and main.                                      *)
(*                                                                         *)
(* Text is a sequence of one-character strings, so that padding, case      *)
(* folding, splitting and the two regular expressions are computed.        *)
(***************************************************************************)
EXTENDS Integers, Sequences, FiniteSets, TLC

VARIABLES
    records,    \* transformer: the <record> elements of the parsed document
    idx,        \* transformer: position of the for loop over the records
    seen,       \* write_services_file: the set `seen`
    dst,        \* transformer: what has been written to dst after the header
    origin,     \* history: for each written line, the index of its record
    tpc,        \* transformer: "idle", "loop", "returned" or "raised"
    fs,         \* main: the files under the destination directory
    tmp,        \* main: the NamedTemporaryFile of the atomic_write in progress
    pc,         \* main: position in main
    aw,         \* main: position inside the atomic_write in progress
    remote,     \* main: what the two URLs serve during this run
    now,        \* main: the clock of the build machine
    uid,        \* main: the user the run executes as
    status,     \* main: "running", "done", "failed" (an exception or exit 1) or "killed"
    dates,      \* main: services_xml_date, protocols_xml_date
    pre,        \* history: fs at the start of the current run
    builds      \* history: the archives closed so far, with their inputs

tvars == <<records, idx, seen, dst, origin, tpc>>
mvars == <<fs, tmp, pc, aw, remote, now, uid, status, dates, pre, builds>>
vars == <<records, idx, seen, dst, origin, tpc,
          fs, tmp, pc, aw, remote, now, uid, status, dates, pre, builds>>

(***************************************************************************)
(* Bounds                                                                  *)
(***************************************************************************)
MaxRecords == 2
MaxClock == 2

(***************************************************************************)
(* Text                                                                    *)
(***************************************************************************)
UpperCase == <<"A","B","C","D","E","F","G","H","I","J","K","L","M",
               "N","O","P","Q","R","S","T","U","V","W","X","Y","Z">>
LowerCase == <<"a","b","c","d","e","f","g","h","i","j","k","l","m",
               "n","o","p","q","r","s","t","u","v","w","x","y","z">>

\* str.lower() on one character
LowerChar(c) ==
    IF \E i \in 1..Len(UpperCase) : UpperCase[i] = c
    THEN LowerCase[CHOOSE i \in 1..Len(UpperCase) : UpperCase[i] = c]
    ELSE c

\* str.lower()
Lower(s) == [i \in 1..Len(s) |-> LowerChar(s[i])]

\* str.replace(a, b) for a single character a and a text b of length <= 1
RECURSIVE Replace(_, _, _)
Replace(s, a, b) ==
    IF s = <<>> THEN <<>>
    ELSE (IF Head(s) = a THEN b ELSE <<Head(s)>>) \o Replace(Tail(s), a, b)

\* the characters \s matches and str.split() splits on
Whitespace == {" ", "\t", "\n", "\r", "\f"}

Digits == <<"0","1","2","3","4","5","6","7","8","9">>

IsDigit(c) == \E i \in 1..10 : Digits[i] = c

DigitVal(c) == (CHOOSE i \in 1..10 : Digits[i] = c) - 1

\* int(s) succeeds (a text of decimal digits); otherwise int raises ValueError
IsIntText(s) == Len(s) > 0 /\ \A i \in 1..Len(s) : IsDigit(s[i])

\* int(s)
RECURSIVE ParseInt(_)
ParseInt(s) ==
    IF s = <<>> THEN 0
    ELSE 10 * ParseInt(SubSeq(s, 1, Len(s) - 1)) + DigitVal(s[Len(s)])

\* f"{n}" for a natural number n
RECURSIVE IntToStr(_)
IntToStr(n) ==
    IF n < 10 THEN <<Digits[n + 1]>>
    ELSE IntToStr(n \div 10) \o <<Digits[(n % 10) + 1]>>

\* f"{s:<w}": pad with spaces on the right up to width w, never truncate
Ljust(s, w) ==
    IF Len(s) >= w THEN s ELSE s \o [i \in 1..(w - Len(s)) |-> " "]

\* s.split(sep)[0] for a single character sep
RECURSIVE SplitFirst(_, _)
SplitFirst(s, sep) ==
    IF s = <<>> \/ Head(s) = sep THEN <<>>
    ELSE <<Head(s)>> \o SplitFirst(Tail(s), sep)

\* s with its leading whitespace removed
RECURSIVE LStrip(_)
LStrip(s) ==
    IF s # <<>> /\ Head(s) \in Whitespace THEN LStrip(Tail(s)) ELSE s

\* the longest prefix of s without whitespace
RECURSIVE Token(_)
Token(s) ==
    IF s = <<>> \/ Head(s) \in Whitespace THEN <<>>
    ELSE <<Head(s)>> \o Token(Tail(s))

\* s.split()[0]: the first whitespace-delimited token (IndexError if none)
FirstToken(s) == Token(LStrip(s))

(***************************************************************************)
(* The regular expressions.  Both are applied with re.match, which anchors *)
(* at the start of the text, and neither is compiled with DOTALL, so the   *)
(* leading .* cannot run over a newline.                                   *)
(***************************************************************************)
Keywords == { <<"u","n","a","s","s","i","g","n","e","d">>,
              <<"d","e","p","r","e","c","a","t","e","d">>,
              <<"r","e","s","e","r","v","e","d">>,
              <<"h","i","s","t","o","r","i","c">> }

\* IGNORE_PATTERN.match(s) is not None
IGNORE_PATTERN(s) ==
    \E k \in Keywords : \E i \in 1..Len(s) :
        /\ i + Len(k) - 1 <= Len(s)
        /\ \A j \in 1..Len(k) : LowerChar(s[i + j - 1]) = k[j]
        /\ \A j \in 1..(i - 1) : s[j] # "\n"

\* has_spaces(s)
has_spaces(s) ==
    \E i \in 1..Len(s) :
        /\ s[i] \in Whitespace
        /\ \A j \in 1..(i - 1) : s[j] # "\n"

(***************************************************************************)
(* Registry records.  A field is the result of r.find(tag): no element, an *)
(* element whose text is None, or an element with text.                    *)
(***************************************************************************)
NoElement == [el |-> FALSE, hasText |-> FALSE, text |-> <<>>]
NoText    == [el |-> TRUE,  hasText |-> FALSE, text |-> <<>>]
Txt(s)    == [el |-> TRUE,  hasText |-> TRUE,  text |-> s]

\* desc = desc_el.text if desc_el is not None and desc_el.text else ""
DescOf(r) ==
    IF r.description.el /\ r.description.hasText /\ r.description.text # <<>>
    THEN r.description.text ELSE <<>>

\* CommentOf with the length test off by one
CommentOf_AtMost70(desc) ==
    IF desc # <<>> /\ Len(desc) <= 70
    THEN <<" ", "#", " ">> \o Replace(desc, "\n", <<>>)
    ELSE <<>>

\* the comment written after an entry, or nothing
CommentOf(desc) ==
    IF desc # <<>> /\ Len(desc) < 70
    THEN <<" ", "#", " ">> \o Replace(desc, "\n", <<>>)
    ELSE <<>>

SERVICES_HEADER == "# See also services(5) and IANA offical page :\n# https://www.iana.org/assignments/service-names-port-numbers/service-names-port-numbers.xhtml\n"
PROTOCOLS_HEADER == "# See also protocols(5) and IANA official page :\n# https://www.iana.org/assignments/protocol-numbers/protocol-numbers.xhtml\n"

(***************************************************************************)
(* write_services_file, one record at a time                               *)
(***************************************************************************)
\* the condition of the `continue` at the top of the loop body
ServicesSkip(r) ==
    \/ IGNORE_PATTERN(DescOf(r))
    \/ ~r.name.el
    \/ ~r.name.hasText
    \/ has_spaces(r.name.text)
    \/ ~r.protocol.el
    \/ ~r.protocol.hasText
    \/ ~r.number.el
    \/ ~r.number.hasText

ServicesName(r) == Replace(Lower(r.name.text), "_", <<"-">>)

ServicesProtocol(r) == Lower(r.protocol.text)

ServicesNumberText(r) == SplitFirst(r.number.text, "-")

ServicesNumber(r) == ParseInt(ServicesNumberText(r))

\* entry = f"{name:<16} {assignments:<10}"
ServicesEntry(r) ==
    Ljust(ServicesName(r), 16) \o <<" ">>
        \o Ljust(IntToStr(ServicesNumber(r)) \o <<"/">> \o ServicesProtocol(r), 10)

\* InSeen of a loop that never finds an entry again
InSeen_Never(entry, s) == FALSE

\* the test `entry in seen`
InSeen(entry, s) == entry \in s

\* one iteration of `for r in root.iter("record")`
ServicesIteration ==
    /\ tpc = "loop"
    /\ idx <= Len(records)
    /\ LET r == records[idx] IN
       IF ServicesSkip(r)
       THEN /\ idx' = idx + 1
            /\ UNCHANGED <<seen, dst, origin, tpc>>
       ELSE IF ~IsIntText(ServicesNumberText(r))
       THEN \* int() raises ValueError; atomic_write discards the temporary file
            /\ tpc' = "raised"
            /\ UNCHANGED <<idx, seen, dst, origin>>
       ELSE IF InSeen(ServicesEntry(r), seen)
       THEN /\ idx' = idx + 1
            /\ UNCHANGED <<seen, dst, origin, tpc>>
       ELSE /\ seen' = seen \cup {ServicesEntry(r)}
            /\ dst' = Append(dst, ServicesEntry(r) \o CommentOf(DescOf(r)) \o <<"\n">>)
            /\ origin' = Append(origin, idx)
            /\ idx' = idx + 1
            /\ UNCHANGED tpc
    /\ UNCHANGED records
    /\ UNCHANGED mvars

\* the loop is exhausted: the with block exits and the function returns
TransformerReturn ==
    /\ tpc = "loop"
    /\ idx > Len(records)
    /\ tpc' = "returned"
    /\ UNCHANGED <<records, idx, seen, dst, origin>>
    /\ UNCHANGED mvars

(***************************************************************************)
(* write_protocols_file, one record at a time                              *)
(***************************************************************************)
\* the condition of the `continue` at the top of the loop body
ProtocolsSkip(r) ==
    \/ IGNORE_PATTERN(DescOf(r))
    \/ ~r.name.el
    \/ ~r.name.hasText
    \/ IGNORE_PATTERN(r.name.text)
    \/ has_spaces(r.name.text)
    \/ ~r.value.el
    \/ ~r.value.hasText

ProtocolsAlias(r) == FirstToken(r.name.text)

ProtocolsName(r) == Lower(ProtocolsAlias(r))

\* f"{name:<16} {assignment:<16}" with assignment = f"{value} {alias}"
ProtocolsEntry(r) ==
    Ljust(ProtocolsName(r), 16) \o <<" ">>
        \o Ljust(IntToStr(ParseInt(r.value.text)) \o <<" ">> \o ProtocolsAlias(r), 16)

\* one iteration of `for r in root.iter("record")`
ProtocolsIteration ==
    /\ tpc = "loop"
    /\ idx <= Len(records)
    /\ LET r == records[idx] IN
       IF ProtocolsSkip(r)
       THEN /\ idx' = idx + 1
            /\ UNCHANGED <<dst, origin, tpc>>
       ELSE IF ~IsIntText(r.value.text)
       THEN \* int() raises ValueError; atomic_write discards the temporary file
            /\ tpc' = "raised"
            /\ UNCHANGED <<idx, dst, origin>>
       ELSE /\ dst' = Append(dst, ProtocolsEntry(r) \o CommentOf(DescOf(r)) \o <<"\n">>)
            /\ origin' = Append(origin, idx)
            /\ idx' = idx + 1
            /\ UNCHANGED tpc
    /\ UNCHANGED <<records, seen>>
    /\ UNCHANGED mvars

(***************************************************************************)
(* Sample texts and records                                                *)
(***************************************************************************)
t_http   == <<"h","t","t","p">>
t_Http   == <<"H","t","t","p">>
t_a_b    == <<"a","_","b">>
t_a_sp_b == <<"a"," ","b">>
t_long17 == <<"a","b","c","d","e","f","g","h","i","j","k","l","m","n","o","p","q">>
t_tcp    == <<"t","c","p">>
t_UDP    == <<"U","D","P">>
t_tcp_sp == <<"t","c","p"," ">>
t_80     == <<"8","0">>
t_080    == <<"0","8","0">>
t_range  == <<"1","0","2","4","-","1","0","3","0">>
t_x      == <<"x">>
t_6      == <<"6">>
t_17     == <<"1","7">>
t_TCP    == <<"T","C","P">>
t_TCPlong == <<"T","C","P"," ","T","r","a","n","s","m","i","s","s","i","o","n"," ","C","o","n","t","r","o","l">>
t_IPv6   == <<"I","P","v","6","-","R","o","u","t","e">>
t_ARGUS  == <<"A","R","G","U","S"," ","(","d","e","p","r","e","c","a","t","e","d",")">>
t_HTTPdesc == <<"H","y","p","e","r","t","e","x","t"," ","T","r","a","n","s","f","e","r"," ","P","r","o","t","o","c","o","l">>
t_Web    == <<"W","o","r","l","d"," ","W","i","d","e"," ","W","e","b">>
t_Reserved == <<"R","e","s","e","r","v","e","d">>
t_preHistoric == <<"a"," ","p","r","e","H","i","s","t","o","r","i","c"," ","o","n","e">>
t_nl_reserved == <<"P","o","r","t","\n","r","e","s","e","r","v","e","d">>
t_reserved_nl == <<"d","e","p","r","e","c","a","t","e","d","\n","p","o","r","t">>
t_a_nl_b == <<"t","w","o","\n","l","i","n","e","s">>
t_TransCtl == <<"T","r","a","n","s","m","i","s","s","i","o","n"," ","C","o","n","t","r","o","l">>
t_len69  == [i \in 1..69 |-> "d"]
t_len70  == [i \in 1..70 |-> "d"]

SRec(d, n, p, num) == [description |-> d, name |-> n, protocol |-> p, number |-> num]

ServiceRecords ==
    { SRec(NoElement, Txt(t_Http), Txt(t_UDP), Txt(t_range)),
      SRec(NoElement, Txt(t_a_b), Txt(t_tcp), Txt(t_range)) }
    \cup { SRec(Txt(d), Txt(t_http), Txt(t_tcp), Txt(t_80)) :
          d \in {t_HTTPdesc, t_Reserved, t_nl_reserved, t_a_nl_b, t_len69, t_len70} }
    \cup { SRec(NoText, Txt(t_long17), Txt(t_tcp), Txt(t_080)),
           SRec(NoElement, Txt(t_http), Txt(t_tcp_sp), Txt(t_80)),
           SRec(Txt(t_Web), NoElement, Txt(t_tcp), Txt(t_80)),
           SRec(Txt(t_Web), NoText, Txt(t_tcp), Txt(t_80)),
           SRec(Txt(t_Web), Txt(t_a_sp_b), Txt(t_tcp), Txt(t_80)),
           SRec(Txt(t_Web), Txt(t_http), NoElement, Txt(t_80)),
           SRec(Txt(t_Web), Txt(t_http), NoText, Txt(t_80)),
           SRec(Txt(t_Web), Txt(t_http), Txt(t_tcp), NoElement),
           SRec(Txt(t_Web), Txt(t_http), Txt(t_tcp), NoText),
           SRec(Txt(t_Web), Txt(t_http), Txt(t_tcp), Txt(t_x)) }

PRec(d, n, v) == [description |-> d, name |-> n, value |-> v]

ProtocolRecords ==
    { PRec(d, Txt(n), Txt(v)) :
          d \in {NoElement, Txt(t_TransCtl)},
          n \in {t_TCP, t_tcp, t_IPv6, t_TCPlong},
          v \in {t_6, t_17} }
    \cup { PRec(Txt(d), Txt(t_TCP), Txt(t_6)) :
          d \in {t_Reserved, t_nl_reserved, t_preHistoric, t_reserved_nl, t_a_nl_b,
                 t_len69, t_len70} }
    \cup { PRec(NoText, Txt(t_ARGUS), Txt(t_17)),
           PRec(NoText, Txt(t_Reserved), Txt(t_17)),
           PRec(NoText, Txt(t_nl_reserved), Txt(t_17)),
           PRec(Txt(t_TransCtl), NoElement, Txt(t_6)),
           PRec(Txt(t_TransCtl), NoText, Txt(t_6)),
           PRec(Txt(t_TransCtl), Txt(t_TCP), NoElement),
           PRec(Txt(t_TransCtl), Txt(t_TCP), NoText),
           PRec(Txt(t_TransCtl), Txt(t_TCP), Txt(t_range)),
           PRec(Txt(t_TransCtl), Txt(t_TCPlong), Txt(t_x)) }

\* the record sequences of the documents given to a transformer
Documents(R) == UNION { [1..n -> R] : n \in 0..MaxRecords }

(***************************************************************************)
(* Dates: parse_date and strftime                                          *)
(***************************************************************************)
\* s.split(sep) for a single character sep
RECURSIVE Split(_, _)
Split(s, sep) ==
    LET h == SplitFirst(s, sep) IN
    IF Len(h) = Len(s) THEN <<s>>
    ELSE <<h>> \o Split(SubSeq(s, Len(h) + 2, Len(s)), sep)

IsLeap(y) == (y % 4 = 0 /\ y % 100 # 0) \/ y % 400 = 0

DaysIn(y, m) ==
    IF m = 2 THEN (IF IsLeap(y) THEN 29 ELSE 28)
    ELSE IF m \in {4, 6, 9, 11} THEN 30 ELSE 31

\* datetime.strptime(s, "%Y-%m-%d") succeeds: four digits, then one or two
\* digits for the month and for the day, naming a day of the calendar
IsDateText(s) ==
    LET p == Split(s, "-") IN
    /\ Len(p) = 3
    /\ Len(p[1]) = 4 /\ IsIntText(p[1]) /\ ParseInt(p[1]) >= 1
    /\ Len(p[2]) \in 1..2 /\ IsIntText(p[2]) /\ ParseInt(p[2]) \in 1..12
    /\ Len(p[3]) \in 1..2 /\ IsIntText(p[3])
    /\ ParseInt(p[3]) \in 1..DaysIn(ParseInt(p[1]), ParseInt(p[2]))

\* datetime.strptime(s, "%Y-%m-%d") as <<year, month, day>>
strptime(s) ==
    LET p == Split(s, "-") IN <<ParseInt(p[1]), ParseInt(p[2]), ParseInt(p[3])>>

\* parse_date(root) returns (the assert holds and strptime succeeds)
DateOk(doc) == doc.updated.el /\ doc.updated.hasText /\ IsDateText(doc.updated.text)

parse_date(doc) == strptime(doc.updated.text)

\* a < b on datetime values
DateLess(a, b) ==
    \/ a[1] < b[1]
    \/ a[1] = b[1] /\ a[2] < b[2]
    \/ a[1] = b[1] /\ a[2] = b[2] /\ a[3] < b[3]

\* MaxDate of a main that takes the date of the services document
MaxDate_First(a, b) == a

\* max(a, b): the first argument unless the second is greater
MaxDate(a, b) == IF DateLess(a, b) THEN b ELSE a

ZeroPad(s, w) == IF Len(s) >= w THEN s ELSE [i \in 1..(w - Len(s)) |-> "0"] \o s

\* d.strftime("%Y%m%d")
strftime(d) ==
    ZeroPad(IntToStr(d[1]), 4) \o ZeroPad(IntToStr(d[2]), 2) \o ZeroPad(IntToStr(d[3]), 2)

(***************************************************************************)
(* Documents and file contents.  The content of a file is a sequence of    *)
(* chunks, in the order they are written; a file that was interrupted      *)
(* holds a proper prefix of what was meant to be written.                  *)
(***************************************************************************)
Doc(w, u, i) == [which |-> w, updated |-> u, id |-> i]

ServicesDocs ==
    { Doc("services", Txt(<<"2","0","2","4","-","0","1","-","0","5">>), 1),
      Doc("services", Txt(<<"2","0","2","4","-","0","2","-","1","0">>), 2),
      Doc("services", NoElement, 3) }

ProtocolsDocs ==
    { Doc("protocols", Txt(<<"2","0","2","3","-","1","2","-","3","1">>), 1),
      Doc("protocols", Txt(<<"2","0","2","4","-","2","-","1","0">>), 2),
      Doc("protocols", Txt(<<"2","0","2","4","-","1","3","-","0","1">>), 3) }

\* the bytes a URL serves for a document
XmlBytes(doc) ==
    << [which |-> doc.which, updated |-> doc.updated], [records |-> doc.id] >>

\* ET.iterparse reaches the end of the document (otherwise ParseError)
WellFormed(bytes) == Len(bytes) = 2

\* parse_xml(source)
parse_xml(bytes) ==
    [which |-> bytes[1].which, updated |-> bytes[1].updated, id |-> bytes[2].records]

\* what a transformer writes for a document: the header, then the lines
FlatBytes(header, doc) ==
    << [header |-> header], [lines |-> [of |-> doc.which, id |-> doc.id]] >>

\* hashlib.sha256 of the bytes of a file
compute_sha256(bytes) == [sha256 |-> bytes]

(***************************************************************************)
(* The destination directory                                               *)
(***************************************************************************)
Path(d, b, v, e) == [dir |-> d, base |-> b, ver |-> v, ext |-> e]

SERVICES_XML  == Path("", "service-names-port-numbers.xml", <<>>, "")
PROTOCOLS_XML == Path("", "protocol-numbers.xml", <<>>, "")
SERVICES_FILE == Path("dist", "services", <<>>, "")
PROTOCOLS_FILE == Path("dist", "protocols", <<>>, "")
VERSION_FILE  == Path("", ".version", <<>>, "")
Tarball(v)    == Path("dist", "iana-etc-", v, ".tar.gz")
Sidecar(v)    == Path("dist", "iana-etc-", v, ".tar.gz.sha256")

ValidDocs(D) == { d \in D : DateOk(d) }

Versions == { strftime(parse_date(d)) : d \in ValidDocs(ServicesDocs \cup ProtocolsDocs) }

Paths ==
    { SERVICES_XML, PROTOCOLS_XML, SERVICES_FILE, PROTOCOLS_FILE, VERSION_FILE }
    \cup { Tarball(v) : v \in Versions } \cup { Sidecar(v) : v \in Versions }

NoFile == [exists |-> FALSE, bytes |-> <<>>, mtime |-> 0, uid |-> 0, mode |-> ""]

File(b, t, u, m) == [exists |-> TRUE, bytes |-> b, mtime |-> t, uid |-> u, mode |-> m]

EmptyDir == [p \in Paths |-> NoFile]

Uids == {0, 1000}

UserName(u) == IF u = 0 THEN "root" ELSE "builder"

(***************************************************************************)
(* The archive                                                             *)
(***************************************************************************)
\* TarFile.gettarinfo: the metadata comes from the file system
gettarinfo(f, arcname) ==
    [name |-> arcname, data |-> f.bytes, mode |-> f.mode, mtime |-> f.mtime,
     uid |-> f.uid, gid |-> f.uid, uname |-> UserName(f.uid), gname |-> UserName(f.uid)]

\* the filter of add_entry
reset(ti) ==
    [ti EXCEPT !.uid = 0, !.gid = 0, !.uname = "root", !.gname = "root",
               !.mtime = 0, !.mode = "0644"]

\* add_entry(tar, name, file): the member appended to the archive
add_entry(dir, name, file) ==
    reset(gettarinfo(dir[file], [top |-> name, base |-> file.base]))

\* name = f"iana-etc-{version}"
TopDir(v) == <<"iana-etc-", v>>

\* tarfile.open(tarball, "w:gz"): GzipFile writes its header at once, with
\* the name of the file and, no mtime being passed, the current time
GzipHeader(v, t) == [gzip |-> Tarball(v), mtime |-> t]

\* the files main adds, in order
TarInputs == <<SERVICES_XML, SERVICES_FILE, PROTOCOLS_XML, PROTOCOLS_FILE>>

\* TarFile.close: the end-of-archive blocks
TarEnd == [eof |-> TRUE]

\* an archive that was written to its end
TarComplete(bytes) == Len(bytes) = Len(TarInputs) + 2 /\ bytes[Len(bytes)] = TarEnd

\* the names and contents of the members of a complete archive
MembersOf(bytes) ==
    [i \in 1..Len(TarInputs) |-> [name |-> bytes[i + 1].name, data |-> bytes[i + 1].data]]

Build(bytes) ==
    [inputs |-> MembersOf(bytes), bytes |-> bytes, sha |-> compute_sha256(bytes)]

(***************************************************************************)
(* main                                                                    *)
(***************************************************************************)
\* Steps of a main that writes the stamp before the sidecar
Steps_StampBeforeSidecar ==
    <<"dl_services", "dl_protocols", "services", "protocols", "tar", "version", "sha">>

Steps == <<"dl_services", "dl_protocols", "services", "protocols", "tar", "sha", "version">>

StepNo(p) == CHOOSE i \in 1..Len(Steps) : Steps[i] = p

\* the statement main goes on with after a step
NextPc(p) == IF StepNo(p) = Len(Steps) THEN "end" ELSE Steps[StepNo(p) + 1]

\* version = max(services_xml_date, protocols_xml_date).strftime("%Y%m%d")
VersionOf(ds) == strftime(MaxDate(ds.services, ds.protocols))

Version == VersionOf(dates)

\* the destination of the atomic_write of a step
DestOf(p, v) ==
    CASE p = "dl_services"  -> SERVICES_XML
      [] p = "dl_protocols" -> PROTOCOLS_XML
      [] p = "services"     -> SERVICES_FILE
      [] p = "protocols"    -> PROTOCOLS_FILE
      [] p = "tar"          -> Tarball(v)
      [] p = "sha"          -> Sidecar(v)
      [] p = "version"      -> VERSION_FILE

\* the XML file a transformer reads
SourceOf(p) == IF p = "services" THEN SERVICES_XML ELSE PROTOCOLS_XML

\* what the body of the atomic_write of a step writes, given the directory,
\* the documents the URLs serve and the version
BodyOf(p, dir, rem, v) ==
    CASE p = "dl_services"  -> XmlBytes(rem.services)
      [] p = "dl_protocols" -> XmlBytes(rem.protocols)
      [] p = "services"     -> FlatBytes(SERVICES_HEADER, parse_xml(dir[SERVICES_XML].bytes))
      [] p = "protocols"    -> FlatBytes(PROTOCOLS_HEADER, parse_xml(dir[PROTOCOLS_XML].bytes))
      [] p = "sha"          -> << compute_sha256(dir[Tarball(v)].bytes) >>
      [] p = "version"      -> << [text |-> v] >>

AtomicSteps == {"dl_services", "dl_protocols", "services", "protocols", "sha", "version"}

Transformers == {"services", "protocols"}

\* os.rename(file.name, filename): the temporary file becomes the destination
Commit(dir, path, file) == [dir EXCEPT ![path] = file]

\* the temporary file once the body has written everything
Written(bytes, t, u) == File(bytes, t, u, "0600")

\* the bytes of the archive main builds from the directory at time t
TarBytes(dir, v, t) ==
    <<GzipHeader(v, t)>>
        \o [i \in 1..Len(TarInputs) |-> add_entry(dir, TopDir(v), TarInputs[i])]
        \o <<TarEnd>>

\* the directory after one step of main ran to its end
StepResult(dir, p, rem, v, t, u) ==
    IF p = "tar"
    THEN Commit(dir, Tarball(v), File(TarBytes(dir, v, t), t, u, "0644"))
    ELSE Commit(dir, DestOf(p, v), Written(BodyOf(p, dir, rem, v), t, u))

\* the directory after the steps k, k+1, ... of main ran to their end
RECURSIVE RunFrom(_, _, _, _, _, _)
RunFrom(dir, k, rem, v, t, u) ==
    IF k > Len(Steps) THEN dir
    ELSE RunFrom(StepResult(dir, Steps[k], rem, v, t, u), k + 1, rem, v, t, u)

\* the directory an earlier, complete run left, and the archive it built
PriorRun(s, p, t, u) ==
    LET rem == [services |-> s, protocols |-> p]
        v   == VersionOf([services |-> parse_date(s), protocols |-> parse_date(p)])
        dir == RunFrom(EmptyDir, 1, rem, v, t, u)
    IN  [fs |-> dir, builds |-> {Build(dir[Tarball(v)].bytes)}, t |-> t]

Priors ==
    { [fs |-> EmptyDir, builds |-> {}, t |-> 1] }
    \cup { PriorRun(s, p, t, u) : s \in ValidDocs(ServicesDocs), p \in ValidDocs(ProtocolsDocs),
                                  t \in 1..MaxClock, u \in Uids }

NoDates == [services |-> <<>>, protocols |-> <<>>]

TransformerIdle ==
    /\ records = <<>>
    /\ idx = 1
    /\ seen = {}
    /\ dst = <<>>
    /\ origin = <<>>
    /\ tpc = "idle"

MainIdle ==
    /\ fs = EmptyDir
    /\ tmp = NoFile
    /\ pc = "idle"
    /\ aw = "none"
    /\ remote = [services |-> Doc("services", NoElement, 3),
                 protocols |-> Doc("protocols", NoElement, 3)]
    /\ now = 1
    /\ uid = 0
    /\ status = "idle"
    /\ dates = NoDates
    /\ pre = EmptyDir
    /\ builds = {}

Init ==
    /\ \E prior \in Priors :
          /\ fs = prior.fs
          /\ pre = prior.fs
          /\ builds = prior.builds
          /\ now \in prior.t..MaxClock
    /\ remote \in [services : ServicesDocs, protocols : ProtocolsDocs]
    /\ uid \in Uids
    /\ tmp = NoFile
    /\ pc = "start"
    /\ aw = "none"
    /\ status = "running"
    /\ dates = NoDates
    /\ TransformerIdle

\* os.makedirs(os.path.join(dest, "dist"), exist_ok=True)
MakeDirs ==
    /\ status = "running"
    /\ pc = "start"
    /\ pc' = Steps[1]
    /\ UNCHANGED <<fs, tmp, aw, remote, now, uid, status, dates, pre, builds>>
    /\ UNCHANGED tvars

\* parse_xml and parse_date at the top of a transformer, before atomic_write
ParseSource ==
    /\ status = "running"
    /\ pc \in Transformers
    /\ aw = "none"
    /\ LET src == fs[SourceOf(pc)] IN
       IF src.exists /\ WellFormed(src.bytes) /\ DateOk(parse_xml(src.bytes))
       THEN /\ dates' = [dates EXCEPT ![pc] = parse_date(parse_xml(src.bytes))]
            /\ aw' = "parsed"
            /\ UNCHANGED status
       ELSE /\ status' = "failed"
            /\ UNCHANGED <<dates, aw>>
    /\ UNCHANGED <<fs, tmp, pc, remote, now, uid, pre, builds>>
    /\ UNCHANGED tvars

\* the point where main enters `with atomic_write(...)`
AtEntry ==
    /\ status = "running"
    /\ \/ pc \in Transformers /\ aw = "parsed"
       \/ pc \in AtomicSteps \ Transformers /\ aw = "none"

\* AwOpen of a writer that opens the destination itself
AwOpen_AtDestination ==
    /\ AtEntry
    /\ tmp' = File(<<>>, now, uid, "0600")
    /\ fs' = Commit(fs, DestOf(pc, Version), File(<<>>, now, uid, "0600"))
    /\ aw' = "created"
    /\ UNCHANGED <<pc, remote, now, uid, status, dates, pre, builds>>
    /\ UNCHANGED tvars

\* tempfile.NamedTemporaryFile(delete=False, dir=path, mode=mode)
AwOpen ==
    /\ AtEntry
    /\ tmp' = File(<<>>, now, uid, "0600")
    /\ aw' = "created"
    /\ UNCHANGED <<fs, pc, remote, now, uid, status, dates, pre, builds>>
    /\ UNCHANGED tvars

\* NamedTemporaryFile raises: the finally clause finds `file` unbound and
\* raises in its turn; nothing was created
AwOpenRaise ==
    /\ AtEntry
    /\ status' = "failed"
    /\ UNCHANGED <<fs, tmp, pc, aw, remote, now, uid, dates, pre, builds>>
    /\ UNCHANGED tvars

\* what the body of the atomic_write in progress writes
BodyContent == BodyOf(pc, fs, remote, Version)

\* AwWrite of a writer whose temporary file is the destination
AwWrite_InPlace ==
    /\ status = "running"
    /\ aw = "created"
    /\ Len(tmp.bytes) < Len(BodyContent)
    /\ tmp' = [tmp EXCEPT !.bytes = Append(@, BodyContent[Len(@) + 1]), !.mtime = now]
    /\ fs' = Commit(fs, DestOf(pc, Version), tmp')
    /\ UNCHANGED <<pc, aw, remote, now, uid, status, dates, pre, builds>>
    /\ UNCHANGED tvars

\* the body writes its next chunk to the temporary file
AwWrite ==
    /\ status = "running"
    /\ aw = "created"
    /\ Len(tmp.bytes) < Len(BodyContent)
    /\ tmp' = [tmp EXCEPT !.bytes = Append(@, BodyContent[Len(@) + 1]), !.mtime = now]
    /\ UNCHANGED <<fs, pc, aw, remote, now, uid, status, dates, pre, builds>>
    /\ UNCHANGED tvars

\* the body is over: file.flush()
AwFlush ==
    /\ status = "running"
    /\ aw = "created"
    /\ tmp.bytes = BodyContent
    /\ aw' = "flushed"
    /\ UNCHANGED <<fs, tmp, pc, remote, now, uid, status, dates, pre, builds>>
    /\ UNCHANGED tvars

\* os.fsync(file.fileno())
AwFsync ==
    /\ status = "running"
    /\ aw = "flushed"
    /\ aw' = "synced"
    /\ UNCHANGED <<fs, tmp, pc, remote, now, uid, status, dates, pre, builds>>
    /\ UNCHANGED tvars

\* os.rename(file.name, filename)
AwRename ==
    /\ status = "running"
    /\ aw = "synced"
    /\ fs' = Commit(fs, DestOf(pc, Version), tmp)
    /\ tmp' = NoFile
    /\ aw' = "renamed"
    /\ UNCHANGED <<pc, remote, now, uid, status, dates, pre, builds>>
    /\ UNCHANGED tvars

\* the finally clause after the rename: os.remove fails with ENOENT, which
\* is ignored; main goes on with the next statement
AwExit ==
    /\ status = "running"
    /\ aw = "renamed"
    /\ aw' = "none"
    /\ pc' = NextPc(pc)
    /\ status' = IF NextPc(pc) = "end" THEN "done" ELSE status
    /\ UNCHANGED <<fs, tmp, remote, now, uid, dates, pre, builds>>
    /\ UNCHANGED tvars

\* AwRaise of a writer whose cleanup renames what was written so far
AwRaise_Renames ==
    /\ status = "running"
    /\ aw \in {"created", "flushed", "synced"}
    /\ fs' = Commit(fs, DestOf(pc, Version), tmp)
    /\ tmp' = NoFile
    /\ status' = "failed"
    /\ UNCHANGED <<pc, aw, remote, now, uid, dates, pre, builds>>
    /\ UNCHANGED tvars

\* an exception in the body (urlopen, a read or a write, int()), in flush, in
\* fsync or in rename: the finally clause removes the temporary file and the
\* exception goes up to main, which ends
AwRaise ==
    /\ status = "running"
    /\ aw \in {"created", "flushed", "synced"}
    /\ tmp' = NoFile
    /\ status' = "failed"
    /\ UNCHANGED <<fs, pc, aw, remote, now, uid, dates, pre, builds>>
    /\ UNCHANGED tvars

\* tarfile.open(tarball, "w:gz"): the file is created or truncated in place
TarOpen ==
    /\ status = "running"
    /\ pc = "tar"
    /\ aw = "none"
    /\ fs' = Commit(fs, Tarball(Version), File(<<GzipHeader(Version, now)>>, now, uid, "0644"))
    /\ aw' = "open"
    /\ UNCHANGED <<tmp, pc, remote, now, uid, status, dates, pre, builds>>
    /\ UNCHANGED tvars

\* the next add_entry(tar, name, file)
TarAdd ==
    /\ status = "running"
    /\ pc = "tar"
    /\ aw = "open"
    /\ LET tar == fs[Tarball(Version)] IN
       /\ Len(tar.bytes) <= Len(TarInputs)
       /\ fs' = Commit(fs, Tarball(Version),
                       [tar EXCEPT !.bytes = Append(@, add_entry(fs, TopDir(Version),
                                                                  TarInputs[Len(@)])),
                                   !.mtime = now])
    /\ UNCHANGED <<tmp, pc, aw, remote, now, uid, status, dates, pre, builds>>
    /\ UNCHANGED tvars

\* the with block of the archive exits normally: TarFile.close()
TarClose ==
    /\ status = "running"
    /\ pc = "tar"
    /\ aw = "open"
    /\ LET tar == fs[Tarball(Version)] IN
       /\ Len(tar.bytes) = Len(TarInputs) + 1
       /\ fs' = Commit(fs, Tarball(Version),
                       [tar EXCEPT !.bytes = Append(@, TarEnd), !.mtime = now])
       /\ builds' = builds \cup {Build(Append(tar.bytes, TarEnd))}
    /\ aw' = "none"
    /\ pc' = NextPc(pc)
    /\ UNCHANGED <<tmp, remote, now, uid, status, dates, pre>>
    /\ UNCHANGED tvars

\* an exception in tarfile.open or in an add_entry: what was written to the
\* archive so far stays in place
TarRaise ==
    /\ status = "running"
    /\ pc = "tar"
    /\ aw \in {"none", "open"}
    /\ status' = "failed"
    /\ UNCHANGED <<fs, tmp, pc, aw, remote, now, uid, dates, pre, builds>>
    /\ UNCHANGED tvars

\* the process is interrupted: no handler and no finally clause runs
Kill ==
    /\ status = "running"
    /\ status' = "killed"
    /\ UNCHANGED <<fs, tmp, pc, aw, remote, now, uid, dates, pre, builds>>
    /\ UNCHANGED tvars

\* time passes on the build machine
Tick ==
    /\ status = "running"
    /\ now < MaxClock
    /\ now' = now + 1
    /\ UNCHANGED <<fs, tmp, pc, aw, remote, uid, status, dates, pre, builds>>
    /\ UNCHANGED tvars

Next ==
    \/ MakeDirs
    \/ ParseSource
    \/ AwOpen
    \/ AwOpenRaise
    \/ AwWrite
    \/ AwFlush
    \/ AwFsync
    \/ AwRename
    \/ AwExit
    \/ AwRaise
    \/ TarOpen
    \/ TarAdd
    \/ TarClose
    \/ TarRaise
    \/ Kill
    \/ Tick

Spec == Init /\ [][Next]_vars

(***************************************************************************)
(* The transformers on their own                                           *)
(***************************************************************************)
InitServices ==
    /\ records \in Documents(ServiceRecords)
    /\ idx = 1
    /\ seen = {}
    /\ dst = <<>>
    /\ origin = <<>>
    /\ tpc = "loop"
    /\ MainIdle

NextServices == ServicesIteration \/ TransformerReturn

SpecServices == InitServices /\ [][NextServices]_vars

InitProtocols ==
    /\ records \in Documents(ProtocolRecords)
    /\ idx = 1
    /\ seen = {}
    /\ dst = <<>>
    /\ origin = <<>>
    /\ tpc = "loop"
    /\ MainIdle

NextProtocols == ProtocolsIteration \/ TransformerReturn

SpecProtocols == InitProtocols /\ [][NextProtocols]_vars

(***************************************************************************)
(* Properties of the transformers                                          *)
(***************************************************************************)
\* s contains one of the keywords, in any case, at any position
ContainsKeyword(s) ==
    \E k \in Keywords : \E i \in 1..Len(s) :
        /\ i + Len(k) - 1 <= Len(s)
        /\ Lower(SubSeq(s, i, i + Len(k) - 1)) = k

\* the records the loop has dealt with
Processed == 1..(idx - 1)

\* C4: a record whose description contains "unassigned", "deprecated",
\* "reserved" or "historic" (any case, any position, also after an embedded
\* newline) produces no line
C4_KeywordNeverEmitted ==
    \A j \in 1..Len(origin) : ~ContainsKeyword(DescOf(records[origin[j]]))

\* a services record that gets past the skip rules and whose number is one
ServicesPasses(r) == ~ServicesSkip(r) /\ IsIntText(ServicesNumberText(r))

\* the (normalized name, port, normalized protocol) key of a services record
ServicesKey(r) ==
    [name |-> Replace(Lower(r.name.text), "_", <<"-">>),
     port |-> ParseInt(SplitFirst(r.number.text, "-")),
     protocol |-> Lower(r.protocol.text)]

Spaces(n) == [i \in 1..n |-> " "]

Max(a, b) == IF a >= b THEN a ELSE b

\* the line the services format prescribes for a record
ServicesLine(r) ==
    LET k == ServicesKey(r)
        a == IntToStr(k.port) \o <<"/">> \o k.protocol
        d == DescOf(r)
    IN  k.name \o Spaces(Max(0, 16 - Len(k.name))) \o <<" ">>
            \o a \o Spaces(Max(0, 10 - Len(a)))
            \o (IF Len(d) \in 1..69
                THEN <<" ", "#", " ">> \o SelectSeq(d, LAMBDA c : c # "\n")
                ELSE <<>>)
            \o <<"\n">>

\* C5: no two written lines have the same key, the line of a key comes from
\* the first record that passes the skip rules with that key and carries that
\* record's comment, and a later record with the same key writes nothing
C5_UniqueFirstWins ==
    /\ \A i, j \in 1..Len(origin) :
          i # j => ServicesKey(records[origin[i]]) # ServicesKey(records[origin[j]])
    /\ \A j \in 1..Len(origin) :
          /\ dst[j] = ServicesLine(records[origin[j]])
          /\ \A i \in 1..(origin[j] - 1) :
                ServicesPasses(records[i])
                    => ServicesKey(records[i]) # ServicesKey(records[origin[j]])
    /\ \A i \in Processed : \A k \in Processed :
          (i < k /\ ServicesPasses(records[i]) /\ ServicesPasses(records[k])
                 /\ ServicesKey(records[i]) = ServicesKey(records[k]))
              => \A j \in 1..Len(origin) : origin[j] # k

\* two records with one key and different descriptions were both processed
C5_Witness ==
    /\ tpc = "returned"
    /\ Len(records) = 2
    /\ ServicesPasses(records[1]) /\ ServicesPasses(records[2])
    /\ ServicesKey(records[1]) = ServicesKey(records[2])
    /\ DescOf(records[1]) # DescOf(records[2])
    /\ origin = <<1>>

\* "<port>/<protocol>" of a key
ServicesAssignment(k) == IntToStr(k.port) \o <<"/">> \o k.protocol

\* a record that repeats the padded columns of an earlier record: the same
\* name and the same port/protocol once padded to 10
ServicesDuplicate(i) ==
    \E h \in 1..(i - 1) :
        /\ ServicesPasses(records[h])
        /\ ServicesKey(records[h]).name = ServicesKey(records[i]).name
        /\ Ljust(ServicesAssignment(ServicesKey(records[h])), 10)
              = Ljust(ServicesAssignment(ServicesKey(records[i])), 10)

\* C9: a services record that passes the skip rules and is no duplicate writes
\* exactly one line: the normalized name padded to 16, a space, port/protocol
\* padded to 10, a comment iff the description has 1 to 69 characters (its
\* newlines removed), and a newline
C9_ServicesLineFormat ==
    \A i \in Processed :
        (ServicesPasses(records[i]) /\ ~ServicesDuplicate(i))
            => /\ Cardinality({j \in 1..Len(origin) : origin[j] = i}) = 1
               /\ \A j \in 1..Len(origin) :
                     origin[j] = i => dst[j] = ServicesLine(records[i])

\* a range, a description of 69 characters and one of 70 went through
C9_Witness ==
    /\ tpc = "returned"
    /\ Len(origin) = 2
    /\ \E i \in 1..2 : Len(DescOf(records[i])) = 69
    /\ \E i \in 1..2 : records[i].number.text = t_range
    /\ \E j \in 1..2 : Len(dst[j]) = 16 + 1 + 10 + 3 + 69 + 1

\* the whitespace-delimited tokens of a text are several
SeveralTokens(s) ==
    \E i, j \in 1..Len(s) : i < j /\ s[i] \notin Whitespace /\ s[j] \in Whitespace
        /\ \E h \in (j + 1)..Len(s) : s[h] \notin Whitespace

\* C8: a protocols record with a value whose name has several tokens (and no
\* ignore keyword) writes a line whose alias is the first token as it stands
\* and whose name column is that token in lower case
C8_FirstTokenAlias ==
    \A i \in Processed :
        LET r == records[i] IN
        (/\ r.name.el /\ r.name.hasText /\ SeveralTokens(r.name.text)
         /\ ~ContainsKeyword(r.name.text) /\ ~ContainsKeyword(DescOf(r))
         /\ r.value.el /\ r.value.hasText /\ IsIntText(r.value.text))
            => \E j \in 1..Len(origin) :
                  /\ origin[j] = i
                  /\ SubSeq(dst[j], 1, 17 + Len(r.value.text) + 1 + Len(FirstToken(r.name.text)))
                        = Ljust(Lower(FirstToken(r.name.text)), 16) \o <<" ">>
                              \o r.value.text \o <<" ">> \o FirstToken(r.name.text)

(***************************************************************************)
(* Properties of main                                                      *)
(***************************************************************************)
IsTarball(p) == p.ext = ".tar.gz"

IsSidecar(p) == p.ext = ".tar.gz.sha256"

\* file p holds, whole, what this run writes to it
NewContent(p) ==
    IF p = SERVICES_XML THEN fs[p].bytes = XmlBytes(remote.services)
    ELSE IF p = PROTOCOLS_XML THEN fs[p].bytes = XmlBytes(remote.protocols)
    ELSE IF p = SERVICES_FILE THEN fs[p].bytes = FlatBytes(SERVICES_HEADER, remote.services)
    ELSE IF p = PROTOCOLS_FILE THEN fs[p].bytes = FlatBytes(PROTOCOLS_HEADER, remote.protocols)
    ELSE IF p = VERSION_FILE THEN fs[p].bytes = << [text |-> Version] >>
    ELSE IF IsSidecar(p)
    THEN p = Sidecar(Version) /\ fs[p].bytes = << compute_sha256(fs[Tarball(Version)].bytes) >>
         /\ TarComplete(fs[Tarball(Version)].bytes)
    ELSE /\ p = Tarball(Version)
         /\ TarComplete(fs[p].bytes)
         /\ fs[p].bytes[1].gzip = p
         /\ \A i \in 1..Len(TarInputs) :
               /\ fs[p].bytes[i + 1].name = [top |-> TopDir(Version), base |-> TarInputs[i].base]
               /\ fs[p].bytes[i + 1].data = fs[TarInputs[i]].bytes

\* C1: a destination of atomic_write holds its prior content or the whole
\* new content in every state, whatever fails and wherever the process is
\* interrupted, and only the rename, the last step, changes it
C1_AtomicWrite ==
    /\ [](\A p \in Paths : ~IsTarball(p) => (fs[p] = pre[p] \/ NewContent(p)))
    /\ [][\A p \in Paths :
             (~IsTarball(p) /\ fs'[p] # fs[p])
                 => /\ aw = "synced" /\ aw' = "renamed"
                    /\ p = DestOf(pc, Version)
                    /\ tmp.bytes = BodyContent
                    /\ fs'[p] = tmp]_vars

\* the process stopped in the middle of a body, over a destination that
\* existed with other content
C1_Witness ==
    /\ status \in {"killed", "failed"}
    /\ pc \in AtomicSteps
    /\ aw = "created"
    /\ pre[DestOf(pc, Version)].exists
    /\ pre[DestOf(pc, Version)].bytes # BodyContent
    /\ status = "killed" => (tmp.exists /\ Len(tmp.bytes) = 1 /\ Len(BodyContent) = 2)

\* the step of main that writes a path
StepOfPath(p) ==
    IF p = SERVICES_XML THEN 1
    ELSE IF p = PROTOCOLS_XML THEN 2
    ELSE IF p = SERVICES_FILE THEN 3
    ELSE IF p = PROTOCOLS_FILE THEN 4
    ELSE IF IsTarball(p) THEN 5
    ELSE IF IsSidecar(p) THEN 6
    ELSE 7

\* both flat files, the archive, the sidecar and the stamp of this run
AllProduced ==
    \A p \in {SERVICES_XML, PROTOCOLS_XML, SERVICES_FILE, PROTOCOLS_FILE, VERSION_FILE,
              Tarball(Version), Sidecar(Version)} : fs[p].exists /\ NewContent(p)

\* C2 as stated: a run produces everything, or it fails and every file that
\* existed before still has its content
C2_NoPartialSuccess ==
    /\ status = "done" => AllProduced
    /\ status = "failed" => \A p \in Paths : pre[p].exists => fs[p].bytes = pre[p].bytes

\* C2 as amended: a run that ends normally produces everything; a run that
\* fails at a step leaves the files of later steps and the atomically written
\* file of the failing step as they were, keeps what the earlier steps
\* committed, and leaves the archive, if that is the failing step, as it was
\* or incomplete
C2_PrefixCommitted ==
    /\ status = "done" => AllProduced
    /\ status = "failed" =>
          \A p \in Paths :
              /\ StepOfPath(p) > StepNo(pc) => fs[p] = pre[p]
              /\ (StepOfPath(p) = StepNo(pc) /\ ~IsTarball(p)) => fs[p] = pre[p]
              /\ (StepOfPath(p) = StepNo(pc) /\ IsTarball(p))
                    => \/ fs[p] = pre[p]
                       \/ /\ p = Tarball(Version)
                          /\ ~TarComplete(fs[p].bytes)
                          /\ fs[p].bytes[1] = GzipHeader(Version, fs[p].bytes[1].mtime)
              /\ StepOfPath(p) < StepNo(pc)
                    => IF StepOfPath(p) <= 4 \/ p \in {Tarball(Version), Sidecar(Version)}
                       THEN fs[p].exists /\ NewContent(p)
                       ELSE fs[p] = pre[p]

\* a run failed late, after it had replaced a source file that existed
C2_Witness ==
    /\ status = "failed"
    /\ pc = "sha"
    /\ pre[SERVICES_XML].exists
    /\ fs[SERVICES_XML].bytes # pre[SERVICES_XML].bytes
    /\ pre[VERSION_FILE].exists

\* C3: two archives built from members with the same names and contents are
\* the same bytes and have the same digest
C3_Reproducible ==
    \A a, b \in builds : a.inputs = b.inputs => (a.bytes = b.bytes /\ a.sha = b.sha)

\* the updated date of a document as the number yyyymmdd
DateNum(doc) ==
    LET p == Split(doc.updated.text, "-")
    IN  ParseInt(p[1]) * 10000 + ParseInt(p[2]) * 100 + ParseInt(p[3])

\* what this run makes of the i-th member of the archive
XmlOrFlat(i) ==
    << XmlBytes(remote.services), FlatBytes(SERVICES_HEADER, remote.services),
       XmlBytes(remote.protocols), FlatBytes(PROTOCOLS_HEADER, remote.protocols) >>[i]

LaterNum == Max(DateNum(remote.services), DateNum(remote.protocols))

\* C6: after a successful run .version holds the later of the two updated
\* dates as YYYYMMDD, and that string names the archive, its top-level
\* directory and the sidecar
C6_VersionIsLaterDate ==
    status = "done" =>
        LET V == IntToStr(LaterNum) IN
        /\ Len(V) = 8
        /\ fs[VERSION_FILE].bytes = << [text |-> V] >>
        /\ fs[Tarball(V)].exists /\ TarComplete(fs[Tarball(V)].bytes)
        /\ fs[Tarball(V)].bytes[1].gzip = Tarball(V)
        /\ \A i \in 1..Len(TarInputs) :
              /\ fs[Tarball(V)].bytes[i + 1].name.top = <<"iana-etc-", V>>
              /\ fs[Tarball(V)].bytes[i + 1].data = XmlOrFlat(i)
        /\ fs[Sidecar(V)].exists
        /\ fs[Sidecar(V)].bytes = << compute_sha256(fs[Tarball(V)].bytes) >>

\* a successful run in which the protocols document is the later one and its
\* date is written without leading zeros
C6_Witness ==
    /\ status = "done"
    /\ DateNum(remote.services) < DateNum(remote.protocols)
    /\ remote.protocols.updated.text = <<"2","0","2","4","-","2","-","1","0">>
    /\ pre[VERSION_FILE].exists
    /\ pre[VERSION_FILE].bytes # fs[VERSION_FILE].bytes

\* a download failed in its body: urlopen or the copy raised
FetchFailed == status = "failed" /\ pc \in {"dl_services", "dl_protocols"} /\ aw = "created"

\* C7 as stated: when a fetch fails, no file under the destination directory
\* was created or changed
C7_FetchFailureWritesNothing ==
    FetchFailed => \A p \in Paths : fs[p] = pre[p]

\* C7 as amended: when a fetch fails, no flat file, archive, sidecar or stamp
\* and no protocols XML was created or changed; the services XML is unchanged
\* if its own fetch failed and holds the new document if the protocols fetch
\* failed
C7_FetchFailureKeepsOutputs ==
    FetchFailed =>
        /\ \A p \in Paths \ {SERVICES_XML} : fs[p] = pre[p]
        /\ pc = "dl_services" => fs[SERVICES_XML] = pre[SERVICES_XML]
        /\ pc = "dl_protocols" => fs[SERVICES_XML].bytes = XmlBytes(remote.services)

\* the protocols fetch failed after the services XML had been replaced
C7_Witness ==
    /\ FetchFailed
    /\ pc = "dl_protocols"
    /\ pre[SERVICES_XML].exists
    /\ fs[SERVICES_XML].bytes # pre[SERVICES_XML].bytes
    /\ pre[PROTOCOLS_XML].exists
    /\ pre[PROTOCOLS_XML].bytes # XmlBytes(remote.protocols)

\* the rename of the stamp has happened
VersionCommitted == (pc = "version" /\ aw = "renamed") \/ pc = "end"

\* C10: in every state of a run, failed and interrupted ones included, the
\* stamp is untouched until it is replaced, and once it is replaced with V
\* the archive of V is complete and the sidecar of V holds its digest
C10_StampLast ==
    IF VersionCommitted
    THEN LET V == fs[VERSION_FILE].bytes[1].text IN
         /\ V = Version
         /\ fs[Tarball(V)].exists /\ TarComplete(fs[Tarball(V)].bytes)
         /\ fs[Tarball(V)].bytes[1].gzip = Tarball(V)
         /\ fs[Sidecar(V)].exists
         /\ fs[Sidecar(V)].bytes = << compute_sha256(fs[Tarball(V)].bytes) >>
    ELSE fs[VERSION_FILE] = pre[VERSION_FILE]

\* the stamp was replaced by one of another version and the process was
\* interrupted right after
C10_Witness ==
    /\ status = "killed"
    /\ pc = "version" /\ aw = "renamed"
    /\ pre[VERSION_FILE].exists
    /\ pre[VERSION_FILE].bytes # fs[VERSION_FILE].bytes

====
